---------------------------- MODULE Spec2Model ----------------------------
(***************************************************************************)
(* Model of backup.py: the per-project build / upload / local-delete loop  *)
(* of main, the remote listing (get_backup_files), the GFS classifier      *)
(* (_gfs_to_keep) and the prune phase (delete_from_server).                *)
(*                                                                         *)
(* Instants are UTC, second resolution: [some, d, s] with d the number of  *)
(* days since 1970-01-01 and s the second of the day; some = FALSE is      *)
(* Python's None.  Path strings are sequences of tokens, one token per     *)
(* path segment and one per "/" separator.                                 *)
(***************************************************************************)
EXTENDS Integers, Sequences, FiniteSets, TLC

\* ------------------------------------------------------------------ bounds
MaxProjects == 2   \* projects in config['projects']
MaxRemote   == 2   \* entries the remote store holds before the run
MaxFiles    == 4   \* length of files_with_dates handed to the classifier

\* --------------------------------------------------------- dates and times
None == [some |-> FALSE, d |-> 0, s |-> 0]

At(d, s) == [some |-> TRUE, d |-> d, s |-> s]

IsLeap(y) == (y % 4 = 0 /\ y % 100 # 0) \/ y % 400 = 0

DaysInMonth(y, m) ==
  IF m = 2 THEN (IF IsLeap(y) THEN 29 ELSE 28)
  ELSE IF m \in {4, 6, 9, 11} THEN 30 ELSE 31

\* proleptic Gregorian date -> days since 1970-01-01 (datetime's ordinal)
DaysFromCivil(y, m, d) ==
  LET yy  == IF m <= 2 THEN y - 1 ELSE y
      era == yy \div 400
      yoe == yy - era * 400
      mp  == IF m > 2 THEN m - 3 ELSE m + 9
      doy == (153 * mp + 2) \div 5 + d - 1
      doe == yoe * 365 + yoe \div 4 - yoe \div 100 + doy
  IN  era * 146097 + doe - 719468

\* days since 1970-01-01 -> <<year, month, day>>
CivilFromDays(z0) ==
  LET z   == z0 + 719468
      era == z \div 146097
      doe == z - era * 146097
      yoe == (doe - doe \div 1460 + doe \div 36524 - doe \div 146096) \div 365
      doy == doe - (365 * yoe + yoe \div 4 - yoe \div 100)
      mp  == (5 * doy + 2) \div 153
      d   == doy - (153 * mp + 2) \div 5 + 1
      m   == IF mp < 10 THEN mp + 3 ELSE mp - 9
      y   == yoe + era * 400 + (IF m <= 2 THEN 1 ELSE 0)
  IN  <<y, m, d>>

YearOf(d)  == CivilFromDays(d)[1]

MonthOf(d) == CivilFromDays(d)[2]

\* date.weekday(): Monday = 0 ... Sunday = 6 (1970-01-01 was a Thursday)
Weekday(d) == (d + 3) % 7

\* date.isocalendar(): <<ISO year, ISO week>>, the week of d's Thursday
IsoCalendar(d) ==
  LET thu == d - Weekday(d) + 3
      y   == YearOf(thu)
  IN  <<y, (thu - DaysFromCivil(y, 1, 1)) \div 7 + 1>>

\* datetime comparison
Geq(a, b) == a.d > b.d \/ (a.d = b.d /\ a.s >= b.s)

Gt(a, b) == a.d > b.d \/ (a.d = b.d /\ a.s > b.s)

\* t - timedelta(days=n)
MinusDays(t, n) == At(t.d - n, t.s)

\* t + timedelta(seconds=n)
PlusSeconds(t, n) == At(t.d + (t.s + n) \div 86400, (t.s + n) % 86400)

\* (a - b).days : timedelta normalises to days + a non-negative remainder
DeltaDays(a, b) == (a.d - b.d) - (IF a.s < b.s THEN 1 ELSE 0)


\* ------------------------------------------------------ names and paths
\* A path string is a sequence of tokens.  Sep is one "/"; every other token
\* is a whole path segment.  A segment of kind "backup" is the file name
\* backup_<id>_<ymd>_<hms>.zip with ymd and hms read as decimal digits; a
\* segment of kind "seg" or "other" is any text the backup pattern rejects.
\* Segments hold unreserved characters only, which quote(p, safe="") keeps.
Tok(k, id, ymd, hms) == [kind |-> k, id |-> id, ymd |-> ymd, hms |-> hms]

Sep == Tok("sep", "/", 0, 0)

Seg(id) == Tok("seg", id, 0, 0)

EmptyStr == Seg("")

\* str.rstrip("/")
RECURSIVE rstrip(_)
rstrip(p) ==
  IF p # <<>> /\ p[Len(p)] = Sep THEN rstrip(SubSeq(p, 1, Len(p) - 1)) ELSE p

\* str.endswith("/")
endswith_slash(p) == p # <<>> /\ p[Len(p)] = Sep

\* str.split("/")[-1]
last_segment(p) == IF p = <<>> \/ p[Len(p)] = Sep THEN EmptyStr ELSE p[Len(p)]

\* "/".join(parts)
RECURSIVE join(_)
join(parts) ==
  IF parts = <<>> THEN <<>>
  ELSE IF Len(parts) = 1 THEN <<parts[1]>>
  ELSE <<parts[1], Sep>> \o join(Tail(parts))

\* backup_project, lines 100 and 104: the archive name of a project built at
\* the local wall-clock instant t
zip_name(project_id, t) ==
  LET c == CivilFromDays(t.d)
  IN  Tok("backup", project_id,
          c[1] * 10000 + c[2] * 100 + c[3],
          (t.s \div 3600) * 10000 + ((t.s \div 60) % 60) * 100 + (t.s % 60))

date_from_backup_filename(name) ==
  IF name.kind # "backup" \/ name.id = "" THEN None
  ELSE LET y  == name.ymd \div 10000
           m  == (name.ymd \div 100) % 100
           d  == name.ymd % 100
           h  == name.hms \div 10000
           mi == (name.hms \div 100) % 100
           s  == name.hms % 100
       IN  IF /\ y >= 1 /\ m \in 1..12 /\ d >= 1
              /\ h <= 23 /\ mi <= 59 /\ s <= 59
              /\ d <= DaysInMonth(y, m)
           THEN At(DaysFromCivil(y, m, d), h * 3600 + mi * 60 + s)
           ELSE None

\* --------------------------------------------------------- configuration
\* config['nextcloud'] and one entry of config['projects'] -> remote_dir, or
\* <<>> standing for the (None, None, None) result
NoConn == <<>>

\* "/remote.php/dav/files/"; the fixed middle of it is kept as one token
DavPrefix == <<Sep, Seg("remote.php/dav/files"), Sep>>

nextcloud_conn(nc, project) ==
  IF nc.url = "" \/ nc.user = "" THEN NoConn
  ELSE LET all   == <<nc.user, project.nextcloud_backup_base_dir,
                      project.nextcloud_backup_dir>>
           parts == SelectSeq(all, LAMBDA x : x # "")
       IN  DavPrefix \o join([i \in 1..Len(parts) |-> Seg(parts[i])])

\* ------------------------------------------------------ the remote store
\* getlastmodified as sent by the store: no text, text that is no date, or
\* an RFC 2822 date
NoMod == [text |-> "none", d |-> 0, s |-> 0]

BadMod == [text |-> "bad", d |-> 0, s |-> 0]

DateMod(t) == [text |-> "date", d |-> t.d, s |-> t.s]

\* email.utils.parsedate_to_datetime inside the try of lines 220-226
parse_last_modified(raw) == IF raw.text = "date" THEN At(raw.d, raw.s) ELSE None

Resource(dir, name, coll, lastmod) ==
  [dir |-> dir, name |-> name, coll |-> coll, lastmod |-> lastmod]

\* The multi-status body of PROPFIND <remote_dir>/ with Depth: 1 : the
\* collection itself, then its children; a child collection's href ends
\* with "/".
Propfind(store, remote_dir) ==
  LET kids == SelectSeq(store, LAMBDA r : r.dir = remote_dir)
      self == [href |-> remote_dir \o <<Sep>>, lastmod |-> NoMod]
  IN  <<self>> \o
      [i \in 1..Len(kids) |->
         [href |-> remote_dir \o <<Sep, kids[i].name>>
                     \o (IF kids[i].coll THEN <<Sep>> ELSE <<>>),
          lastmod |-> kids[i].lastmod]]

\* the test of line 214 on the stripped href
SkipHref(href, remote_dir) == href = rstrip(remote_dir) \/ endswith_slash(href)

\* lines 216-227: one response -> one {"name", "last_modified"} item
ItemOf(resp) ==
  LET name   == last_segment(rstrip(resp.href))
      mod_dt == date_from_backup_filename(name)
  IN  [name |-> name,
       last_modified |-> IF mod_dt = None THEN parse_last_modified(resp.lastmod)
                         ELSE mod_dt]

\* lines 208-228, given the parsed responses of a 200/207 answer
get_backup_files(responses, remote_dir) ==
  LET kept == SelectSeq(responses,
                        LAMBDA r : ~SkipHref(rstrip(r.href), remote_dir))
  IN  [i \in 1..Len(kept) |-> ItemOf(kept[i])]


\* -------------------------------------------------- the GFS classifier
\* lines 240-242
Cutoffs(now_utc, son_days, father_weeks, grandfather_months) ==
  [son         |-> MinusDays(now_utc, son_days),
   father      |-> MinusDays(now_utc, 7 * father_weeks),
   grandfather |-> MinusDays(now_utc, grandfather_months * 30)]

BandFatherFirst(mod_utc, c) ==
  IF Geq(mod_utc, c.father) THEN "week"
  ELSE IF Geq(mod_utc, c.son) THEN "day"
  ELSE IF Geq(mod_utc, c.grandfather) THEN "month"
  ELSE "none"

\* the if / elif / elif of lines 257, 261 and 265
Band(mod_utc, c) ==
  IF Geq(mod_utc, c.son) THEN "day"
  ELSE IF Geq(mod_utc, c.father) THEN "week"
  ELSE IF Geq(mod_utc, c.grandfather) THEN "month"
  ELSE "none"

\* line 258: mod_utc.date()
DayKey(t) == t.d

\* line 262: (mod_utc.year, mod_utc.isocalendar()[1])
WeekKey(t) == <<YearOf(t.d), IsoCalendar(t.d)[2]>>

\* line 266: (mod_utc.year, mod_utc.month)
MonthKey(t) == <<YearOf(t.d), MonthOf(t.d)>>

ReplacesOlder(map, key, mod_utc) ==
  key \notin DOMAIN map \/ Gt(map[key].mod_utc, mod_utc)

\* lines 259-260, 263-264, 267-268: the entry replaces the key's holder only
\* when the key is free or the entry is strictly newer
Replaces(map, key, mod_utc) ==
  key \notin DOMAIN map \/ Gt(mod_utc, map[key].mod_utc)

Put(map, key, item, mod_utc) ==
  IF Replaces(map, key, mod_utc)
  THEN [k \in DOMAIN map \cup {key} |->
          IF k = key THEN [item |-> item, mod_utc |-> mod_utc] ELSE map[k]]
  ELSE map

\* one pass of the loop body, lines 248-268
GfsVisit(maps, pair, c) ==
  IF pair.item.name = EmptyStr \/ pair.mod_utc = None THEN maps
  ELSE LET band == Band(pair.mod_utc, c)
       IN  IF band = "day"
           THEN [maps EXCEPT !.by_day =
                   Put(@, DayKey(pair.mod_utc), pair.item, pair.mod_utc)]
           ELSE IF band = "week"
           THEN [maps EXCEPT !.by_week =
                   Put(@, WeekKey(pair.mod_utc), pair.item, pair.mod_utc)]
           ELSE IF band = "month"
           THEN [maps EXCEPT !.by_month =
                   Put(@, MonthKey(pair.mod_utc), pair.item, pair.mod_utc)]
           ELSE maps

RECURSIVE GfsLoop(_, _, _)
GfsLoop(maps, pairs, c) ==
  IF pairs = <<>> THEN maps
  ELSE GfsLoop(GfsVisit(maps, Head(pairs), c), Tail(pairs), c)

Names(map) == {map[k].item.name : k \in DOMAIN map}

\* lines 270-275
ToKeep(maps) ==
  Names(maps.by_day) \cup Names(maps.by_week) \cup Names(maps.by_month)

\* lines 231-277
gfs_to_keep(files_with_dates, now_utc, son_days, father_weeks, grandfather_months) ==
  ToKeep(GfsLoop([by_day |-> <<>>, by_week |-> <<>>, by_month |-> <<>>],
                 files_with_dates,
                 Cutoffs(now_utc, son_days, father_weeks, grandfather_months)))

\* ------------------------------------------------------ the prune phase
\* dict.get(key) or default : a missing key, None and 0 all give the default
OrDefault(v, dflt) == IF v = 0 THEN dflt ELSE v

Get(dict, key) == IF key \in DOMAIN dict THEN dict[key] ELSE 0

\* line 292: a missing "gfs" key and an empty dict are both the empty
\* function here, and both are falsy
GfsMode(backup_cfg) == DOMAIN backup_cfg.gfs # {}

\* lines 298-303
WithDates(files, now) ==
  [i \in 1..Len(files) |->
     [item    |-> files[i],
      mod_utc |-> IF files[i].last_modified = None THEN now
                  ELSE files[i].last_modified]]

ExpiredStrictly(mod_utc, now, retention_days) ==
  DeltaDays(now, mod_utc) > retention_days

\* line 317
Expired(mod_utc, now, retention_days) == DeltaDays(now, mod_utc) >= retention_days

\* lines 292-320 for one project: the items a DELETE is issued for, in order
ToDelete(backup_cfg, files, now) ==
  IF GfsMode(backup_cfg)
  THEN LET gfs     == backup_cfg.gfs
           to_keep == gfs_to_keep(WithDates(files, now), now,
                                  OrDefault(Get(gfs, "son_days"), 7),
                                  OrDefault(Get(gfs, "father_weeks"), 4),
                                  OrDefault(Get(gfs, "grandfather_months"), 12))
       IN  SelectSeq(files, LAMBDA item : item.name \notin to_keep)
  ELSE LET retention_days == OrDefault(backup_cfg.retention_days, 7)
       IN  SelectSeq(files, LAMBDA item :
                       /\ item.last_modified # None
                       /\ Expired(item.last_modified, now, retention_days))

\* ------------------------------------------------------------- upload
\* lines 160-167: the (success, message) pair for a PUT answered with code
upload_result(code, data) ==
  IF code \in {201, 204}
  THEN [success |-> TRUE,  message |-> [text |-> "Upload OK", code |-> code, data |-> ""]]
  ELSE IF code = 409
  THEN [success |-> FALSE, message |-> [text |-> "Parent folder does not exist (409)", code |-> 409, data |-> ""]]
  ELSE IF code = 403
  THEN [success |-> FALSE, message |-> [text |-> "Permission denied (403)", code |-> 403, data |-> ""]]
  ELSE [success |-> FALSE, message |-> [text |-> "HTTP", code |-> code, data |-> data]]

\* line 152
MissingSettings ==
  [success |-> FALSE,
   message |-> [text |-> "Missing nextcloud settings in config.json", code |-> 0, data |-> ""]]


\* ---------------------------------------------------------------- state
VARIABLES
  config,     \* the loaded config.json (load_config's cache)
  pc,         \* position in main
  idx,        \* index of the project the loop of main / delete_from_server is at
  clock,      \* the current UTC instant
  zip_path,   \* main's zip_path
  local,      \* archive files in the temp dir
  store,      \* the remote store: its resources, in listing order
  results,    \* the (success, message) pairs upload has returned, with the status
  log,        \* the steps of the run so far, in order
  listing,    \* delete_from_server's last pass: project, responses, files, now
  deleted,    \* the DELETE requests issued
  uploaded,   \* the archives upload reported as stored
  probe       \* argument and result of a function called on its own

vars == <<config, pc, idx, clock, zip_path, local, store, results, log,
          listing, deleted, uploaded, probe>>

\* sequences over S without repetition, of length at most n
InjSeqs(S, n) ==
  {q \in UNION {[1..k -> S] : k \in 0..n} :
     \A i, j \in DOMAIN q : i # j => q[i] # q[j]}

\* ------------------------------------------------ the inputs of a run
Clock0 == At(DaysFromCivil(2025, 3, 10), 43200)

\* how long the build of one archive takes, in seconds
Durations == {60}

\* the status and body of the store's answers to a PUT
PutAnswers == {201, 500}

PutBodies == {"Locked"}

\* the answers of the store to a PROPFIND
ListAnswers == {207, 404}

ProjectNames == <<"a", "b", "c", "d">>

DirNames == {"p", "q"}

Nextcloud == [url |-> "cloud.example.org", user |-> "u"]

NoNextcloud == [url |-> "", user |-> "u"]

GfsDefaults == [k \in {"son_days", "father_weeks"} |->
                  IF k = "son_days" THEN 7 ELSE 0]

NoGfs == <<>>

\* nextcloud settings, backup settings and the offset of local time from UTC
Settings ==
  { [nextcloud |-> Nextcloud,   backup |-> [gfs |-> GfsDefaults, retention_days |-> 0], tz |-> 0],
    [nextcloud |-> Nextcloud,   backup |-> [gfs |-> GfsDefaults, retention_days |-> 0], tz |-> 7200],
    [nextcloud |-> Nextcloud,   backup |-> [gfs |-> NoGfs,       retention_days |-> 0], tz |-> 0],
    [nextcloud |-> Nextcloud,   backup |-> [gfs |-> NoGfs,       retention_days |-> 6], tz |-> 0],
    [nextcloud |-> NoNextcloud, backup |-> [gfs |-> GfsDefaults, retention_days |-> 0], tz |-> 0] }

\* the first project backs up to "p", every further one to "p" or to "q"
ProjectLists ==
  UNION { { [i \in 1..n |->
               [name |-> ProjectNames[i],
                nextcloud_backup_base_dir |-> "",
                nextcloud_backup_dir |-> dirs[i]]]
              : dirs \in {f \in [1..n -> DirNames] : n = 0 \/ f[1] = "p"} }
          : n \in 0..MaxProjects }

Configs ==
  { [nextcloud |-> st.nextcloud, backup |-> st.backup, tz |-> st.tz, projects |-> ps]
      : st \in Settings, ps \in ProjectLists }

\* what the remote directory "p" may hold before the run
DirP == nextcloud_conn(Nextcloud,
          [name |-> "a", nextcloud_backup_base_dir |-> "", nextcloud_backup_dir |-> "p"])

RemotePool ==
  { Resource(DirP, Tok("other", "notes.txt", 0, 0), FALSE, NoMod),
    Resource(DirP, Tok("other", "readme.md", 0, 0), FALSE, BadMod),
    Resource(DirP, Seg("sub"), TRUE, DateMod(At(DaysFromCivil(2024, 1, 1), 0))),
    Resource(DirP, Tok("other", "legacy.bin", 0, 0), FALSE,
             DateMod(At(DaysFromCivil(2025, 3, 10), 64800))),
    Resource(DirP, Tok("backup", "a", 20250303, 120000), FALSE, NoMod),
    Resource(DirP, Tok("backup", "a", 20250303, 180000), FALSE, NoMod) }

Idle == [fn |-> "none"]

NoListing == [i |-> 0, responses |-> <<>>, files |-> <<>>, now |-> None]

Init ==
  /\ config \in Configs
  /\ store \in InjSeqs(RemotePool, MaxRemote)
  /\ clock = Clock0
  /\ pc = "start"
  /\ idx = 0
  /\ zip_path = EmptyStr
  /\ local = {}
  /\ results = <<>>
  /\ log = <<>>
  /\ listing = NoListing
  /\ deleted = {}
  /\ uploaded = {}
  /\ probe = Idle


\* ----------------------------------------------------------------- main
Event(ev, i) == [ev |-> ev, i |-> i]

\* lines 324-327
MainStart ==
  /\ pc = "start"
  /\ IF config.projects = <<>>
     THEN pc' = "done" /\ idx' = idx
     ELSE pc' = "build" /\ idx' = 1
  /\ UNCHANGED <<config, clock, zip_path, local, store, results, log,
                 listing, deleted, uploaded, probe>>

\* line 332, backup_project: the archive is named after the local time at
\* which the build starts; the finally block leaves only the archive in the
\* temp dir.  ok = FALSE is an error raised while the archive is written.
Build ==
  /\ pc = "build"
  /\ \E dt \in Durations, ok \in BOOLEAN :
       LET project == config.projects[idx]
           zp      == zip_name(project.name, PlusSeconds(clock, config.tz))
       IN  /\ clock' = PlusSeconds(clock, dt)
           /\ local' = {zp}
           /\ IF ok
              THEN /\ zip_path' = zp
                   /\ log' = Append(log, Event("build", idx))
                   /\ pc' = "upload"
              ELSE /\ zip_path' = zip_path
                   /\ log' = Append(log, Event("build_failed", idx))
                   /\ pc' = "crashed"
  /\ UNCHANGED <<config, idx, store, results, listing, deleted, uploaded, probe>>

\* the store's side of PUT <path>: the resource is created or replaced
PutResource(st, path, now) ==
  LET dir  == SubSeq(path, 1, Len(path) - 2)
      name == path[Len(path)]
  IN  Append(SelectSeq(st, LAMBDA r : ~(r.dir = dir /\ r.name = name)),
             Resource(dir, name, FALSE, DateMod(now)))

\* line 333, upload
Upload ==
  /\ pc = "upload"
  /\ LET project    == config.projects[idx]
         remote_dir == nextcloud_conn(config.nextcloud, project)
         remote_path == remote_dir \o <<Sep, zip_path>>
     IN  IF remote_dir = NoConn
         THEN /\ results' = Append(results, [i |-> idx, code |-> 0, data |-> "",
                                             result |-> MissingSettings])
              /\ pc' = "unlink"
              /\ UNCHANGED <<store, uploaded>>
         ELSE \/ \* the connection fails: http.client raises, main does not catch
                 /\ pc' = "crashed"
                 /\ UNCHANGED <<store, uploaded, results>>
              \/ \E code \in PutAnswers, data \in PutBodies :
                   /\ store' = IF code \in 200..299
                               THEN PutResource(store, remote_path, clock)
                               ELSE store
                   /\ results' = Append(results, [i |-> idx, code |-> code, data |-> data,
                                                  result |-> upload_result(code, data)])
                   /\ uploaded' = IF upload_result(code, data).success
                                  THEN uploaded \cup {[dir |-> remote_dir, name |-> zip_path]}
                                  ELSE uploaded
                   /\ pc' = "unlink"
  /\ log' = Append(log, Event("upload", idx))
  /\ UNCHANGED <<config, idx, clock, zip_path, local, listing, deleted, probe>>

AfterUnlinkPruneInLoop(i, n) == [pc |-> "prune", idx |-> 1]

\* the for loop of lines 329-341: after delete(zip_path) either the next
\* project is built or delete_from_server is called
AfterUnlink(i, n) ==
  IF i < n THEN [pc |-> "build", idx |-> i + 1] ELSE [pc |-> "prune", idx |-> 1]

\* line 338, delete, and the step to what follows it
DeleteLocal ==
  /\ pc = "unlink"
  /\ local' = local \ {zip_path}
  /\ LET next == AfterUnlink(idx, Len(config.projects))
     IN  /\ pc' = next.pc
         /\ idx' = next.idx
         /\ log' = IF next.pc = "prune"
                   THEN log \o <<Event("unlink", idx), Event("prune", 0)>>
                   ELSE Append(log, Event("unlink", idx))
  /\ UNCHANGED <<config, clock, zip_path, store, results, listing, deleted,
                 uploaded, probe>>

\* the store's side of DELETE <remote_dir>/<name>
IsCollection(st, dir, name) ==
  \E k \in 1..Len(st) : st[k].dir = dir /\ st[k].name = name /\ st[k].coll

\* lines 285-320: the pass of delete_from_server over one project
Prune ==
  /\ pc = "prune"
  /\ LET project    == config.projects[idx]
         remote_dir == nextcloud_conn(config.nextcloud, project)
     IN  IF remote_dir = NoConn
         THEN UNCHANGED <<store, listing, deleted, log>>
         ELSE \E answer \in ListAnswers :
                \E resp \in {IF answer \in {200, 207}
                            THEN Propfind(store, remote_dir) ELSE <<>>} :
                \E fs \in {get_backup_files(resp, remote_dir)} :
                \E dels \in {ToDelete(config.backup, fs, clock)} :
                LET gone == {dels[k].name : k \in 1..Len(dels)}
                IN  /\ listing' = [i |-> idx, responses |-> resp,
                                   files |-> fs, now |-> clock]
                    /\ store' = SelectSeq(store, LAMBDA r :
                                            ~(r.dir = remote_dir /\ r.name \in gone))
                    /\ deleted' = deleted \cup
                         {[i |-> idx, dir |-> remote_dir, item |-> dels[k],
                           coll |-> IsCollection(store, remote_dir, dels[k].name)]
                            : k \in 1..Len(dels)}
                    /\ log' = log \o [k \in 1..Len(dels) |-> Event("DELETE", idx)]
  /\ IF idx < Len(config.projects)
     THEN pc' = "prune" /\ idx' = idx + 1
     ELSE pc' = "done" /\ idx' = idx
  /\ UNCHANGED <<config, clock, zip_path, local, results, uploaded, probe>>

Next == MainStart \/ Build \/ Upload \/ DeleteLocal \/ Prune

Spec == Init /\ [][Next]_vars


\* ------------------------------------- _gfs_to_keep called on its own
\* The run's variables while a single function is exercised.
NoRun ==
  /\ config = [nextcloud |-> NoNextcloud,
               backup |-> [gfs |-> NoGfs, retention_days |-> 0],
               tz |-> 0, projects |-> <<>>]
  /\ store = <<>>
  /\ clock = Clock0
  /\ pc = "idle"
  /\ idx = 0
  /\ zip_path = EmptyStr
  /\ local = {}
  /\ results = <<>>
  /\ log = <<>>
  /\ listing = NoListing
  /\ deleted = {}
  /\ uploaded = {}

\* now_utc with <<son_days, father_weeks, grandfather_months>>
GfsCases ==
  { [now |-> At(DaysFromCivil(2025, 3, 10), 0), params |-> <<7, 4, 12>>],
    [now |-> At(DaysFromCivil(2025, 3, 10), 0), params |-> <<10, 1, 1>>],
    [now |-> At(DaysFromCivil(2025, 1, 20), 0), params |-> <<7, 4, 12>>],
    [now |-> At(DaysFromCivil(2025, 1, 20), 0), params |-> <<7, 60, 24>>] }

GfsName(ymd, hms) == Tok("backup", "x", ymd, hms)

GfsPool ==
  { GfsName(20250309, 100000), GfsName(20250215, 100000),
    GfsName(20240501, 100000), GfsName(20220101, 100000),
    GfsName(20250309, 180000), GfsName(20241230, 100000),
    GfsName(20250101, 100000), GfsName(20240102, 100000),
    GfsName(20250210, 0),      GfsName(20250303, 0) }

\* an archive name as get_backup_files and delete_from_server hand it on
GfsPair(name) ==
  [item    |-> [name |-> name, last_modified |-> date_from_backup_filename(name)],
   mod_utc |-> date_from_backup_filename(name)]

InitGfs ==
  /\ NoRun
  /\ \E case \in GfsCases, names \in InjSeqs(GfsPool, MaxFiles) :
       probe = [fn |-> "gfs", now |-> case.now, params |-> case.params,
                files |-> [i \in 1..Len(names) |-> GfsPair(names[i])],
                done |-> FALSE, out |-> {}]

GfsCall ==
  /\ probe.fn = "gfs"
  /\ ~probe.done
  /\ probe' = [probe EXCEPT
                 !.done = TRUE,
                 !.out = gfs_to_keep(probe.files, probe.now, probe.params[1],
                                     probe.params[2], probe.params[3])]
  /\ UNCHANGED <<config, pc, idx, clock, zip_path, local, store, results, log,
                 listing, deleted, uploaded>>

NextGfs == GfsCall

SpecGfs == InitGfs /\ [][NextGfs]_vars

\* ------------------------------------ the status mapping of upload alone
\* every status http.client can hand back
HttpStatuses == 100..599

HttpBodies == {"", "Locked"}

InitUpload ==
  /\ NoRun
  /\ \E code \in HttpStatuses, data \in HttpBodies :
       probe = [fn |-> "upload", code |-> code, data |-> data,
                done |-> FALSE, out |-> MissingSettings]

UploadCall ==
  /\ probe.fn = "upload"
  /\ ~probe.done
  /\ probe' = [probe EXCEPT !.done = TRUE,
                            !.out = upload_result(probe.code, probe.data)]
  /\ UNCHANGED <<config, pc, idx, clock, zip_path, local, store, results, log,
                 listing, deleted, uploaded>>

NextUpload == UploadCall

SpecUpload == InitUpload /\ [][NextUpload]_vars


\* ======================================================================
\* Properties
\* ======================================================================
\* how far t lies before now, in seconds
AgeSeconds(now, t) == (now.d - t.d) * 86400 + (now.s - t.s)

\* the band of an instant, from its age: at most son_days days old, else at
\* most father_weeks weeks, else at most grandfather_months * 30 days
AgeBand(t, now, p) ==
  LET age == AgeSeconds(now, t)
  IN  IF age <= p[1] * 86400 THEN "day"
      ELSE IF age <= p[2] * 7 * 86400 THEN "week"
      ELSE IF age <= p[3] * 30 * 86400 THEN "month"
      ELSE "none"

\* band and key of an instant, as one tuple
Bucket(t, now, p) ==
  LET b == AgeBand(t, now, p)
  IN  IF b = "day" THEN <<b, DayKey(t), 0>>
      ELSE IF b = "week" THEN <<b, WeekKey(t)[1], WeekKey(t)[2]>>
      ELSE IF b = "month" THEN <<b, MonthKey(t)[1], MonthKey(t)[2]>>
      ELSE <<b, 0, 0>>

GfsDone == probe.fn = "gfs" /\ probe.done

PName(i) == probe.files[i].item.name

PTime(i) == probe.files[i].mod_utc

PBucket(i) == Bucket(PTime(i), probe.now, probe.params)

\* the entries handed to the classifier, each with its bucket
PEntries ==
  {[name |-> PName(i), time |-> PTime(i), bucket |-> PBucket(i)]
     : i \in DOMAIN probe.files}

ScenarioNames ==
  { GfsName(20250309, 100000), GfsName(20250215, 100000),
    GfsName(20240501, 100000), GfsName(20220101, 100000) }

IsScenario ==
  /\ probe.now = At(DaysFromCivil(2025, 3, 10), 0)
  /\ probe.params = <<7, 4, 12>>
  /\ {PName(i) : i \in DOMAIN probe.files} = ScenarioNames

\* C3: _gfs_to_keep tests the cutoffs in the order son, father, grandfather:
\* an entry of none of the three bands is never kept, the bucket of every
\* other entry (its band, and its key within that band) has a survivor, every
\* survivor is the entry of a band, and in the scenario of 2025-03-10 with
\* 7/4/12 the entries of 2025-03-09, 2025-02-15 and 2024-05-01 are kept and
\* the one of 2022-01-01 is not.
GfsBandsInOrder ==
  GfsDone =>
    /\ \A es \in {PEntries} :
       \A e \in es :
         IF e.bucket[1] = "none"
         THEN e.name \notin probe.out
         ELSE \E f \in es : f.name \in probe.out /\ f.bucket = e.bucket
    /\ IsScenario =>
         probe.out = ScenarioNames \ {GfsName(20220101, 100000)}

GfsScenarioWitness ==
  /\ GfsDone
  /\ IsScenario
  /\ Cardinality(probe.out) = 3
  /\ GfsName(20220101, 100000) \notin probe.out

GfsWeekKeyIsIsoWeek ==
  GfsDone =>
    \A i, j \in DOMAIN probe.files :
      (i # j /\ PBucket(i)[1] = "week" /\ PBucket(j)[1] = "week") =>
        /\ (WeekKey(PTime(i)) = WeekKey(PTime(j)))
             <=> (IsoCalendar(PTime(i).d) = IsoCalendar(PTime(j).d))
        /\ IsoCalendar(PTime(i).d) = IsoCalendar(PTime(j).d)
             => ~(PName(i) \in probe.out /\ PName(j) \in probe.out)

\* C8: every 2xx status of the PUT is a success, 409 and 403 have their own
\* failure messages, and every other status is a failure whose message
\* carries the status and the body.
UploadStatusOutcome ==
  (probe.fn = "upload" /\ probe.done) =>
    LET out == probe.out
    IN  IF probe.code \in 200..299 THEN out.success
        ELSE /\ ~out.success
             /\ (probe.code = 409) <=> (out.message.text = "Parent folder does not exist (409)")
             /\ (probe.code = 403) <=> (out.message.text = "Permission denied (403)")
             /\ probe.code \notin {403, 409} =>
                  /\ out.message.text = "HTTP"
                  /\ out.message.code = probe.code
                  /\ out.message.data = probe.data


\* ------------------------------------------------------------ the run
Before(ev, i, k) == \E j \in 1..(k - 1) : log[j] = Event(ev, i)

Count(ev) == Cardinality({j \in DOMAIN log : log[j].ev = ev})

Ended == pc \in {"done", "crashed"}

\* C1: in GFS mode no DELETE is issued for an entry of the listing that has
\* no resolvable timestamp.
GfsKeepsUndated ==
  GfsMode(config.backup) => \A d \in deleted : d.item.last_modified # None

\* C2: get_backup_files returns no entry for a response whose href ends with
\* the separator (the listed directory, a nested collection), and no DELETE
\* removes a collection.
ListingSkipsCollections ==
  /\ \A k \in DOMAIN listing.responses :
       endswith_slash(listing.responses[k].href) =>
         \A m \in DOMAIN listing.files :
           listing.files[m].name # last_segment(rstrip(listing.responses[k].href))
  /\ \A d \in deleted : ~d.coll

\* the retention_days of line 311
RetentionDays ==
  IF config.backup.retention_days = 0 THEN 7 ELSE config.backup.retention_days

\* C5: in flat-window mode the pass over a project issues a DELETE for
\* exactly the entries of its listing that have a timestamp lying at least
\* retention_days whole days before now; an entry without timestamp is
\* never deleted.
FlatWindowDeletes ==
  (~GfsMode(config.backup) /\ listing.i > 0) =>
    /\ {d.item : d \in {x \in deleted : x.i = listing.i}}
         = {listing.files[k] : k \in
              {m \in DOMAIN listing.files :
                 /\ listing.files[m].last_modified # None
                 /\ AgeSeconds(listing.now, listing.files[m].last_modified)
                      >= RetentionDays * 86400}}
    /\ \A d \in deleted : d.item.last_modified # None

FlatBoundaryWitness ==
  /\ ~GfsMode(config.backup)
  /\ listing.i > 0
  /\ \E d \in deleted :
       /\ d.i = listing.i
       /\ DeltaDays(listing.now, d.item.last_modified) = RetentionDays
  /\ \E m \in DOMAIN listing.files :
       /\ listing.files[m].last_modified # None
       /\ DeltaDays(listing.now, listing.files[m].last_modified) = RetentionDays - 1
       /\ \A d \in deleted : d.item # listing.files[m]

RunSurvivesUploadFailure ==
  (Ended /\ Len(config.projects) >= 1 /\ Count("build_failed") = 0) =>
    /\ \A i \in 1..Len(config.projects) :
         \E j \in DOMAIN log : log[j] = Event("upload", i)
    /\ Count("prune") = 1

\* C10: in GFS mode with 7/4/12 no DELETE is issued for an archive that
\* upload reported as stored in the same run.
UploadedArchiveSurvives ==
  GfsMode(config.backup) =>
    \A d \in deleted : [dir |-> d.dir, name |-> d.item.name] \notin uploaded

=============================================================================
